---- MODULE Spec2Model ----
(***************************************************************************)
(* Fleet reconciler of the Minecraft Bedrock server manager                *)
(* (package server, type Manager): the poll loop, the diff applied by      *)
(* updateServers, the per-instance start and stop, and the exit monitors.  *)
(***************************************************************************)
EXTENDS Integers, Sequences, FiniteSets, TLC

(***************************************************************************)
(* Bounds of the model.                                                    *)
(***************************************************************************)
MaxInstances == 2        \* config.Server.MaxInstances of the modelled run
MaxFails == 1            \* start failures the environment causes in one poll
MaxLag == 0              \* polls that can run before the monitor of a deleted entry returns

(***************************************************************************)
(* Program constants.                                                      *)
(***************************************************************************)
DefaultPort == 19132     \* external port that maps to the first internal port
InternalBase == 20000    \* first port of the internal range
IPv6Port == 19133        \* port reclaimed before every start

Names == {"A", "B", "C"}
NoServer == [absent |-> TRUE]
NoSpec == [none |-> TRUE]
NoSHA == [empty |-> TRUE]     \* lastCommitSHA == ""

(***************************************************************************)
(* config.MinecraftServerConfig, restricted to the fields the manager      *)
(* compares or launches with, plus one field (Gamemode) that it only       *)
(* writes to the properties file, and the map Properties of free-form      *)
(* entries of that file, empty unless said otherwise.                      *)
(***************************************************************************)
NoProperties == [k \in {} |-> <<>>]

MinecraftServerConfig(n, p, v, w, g) ==
    [Name |-> n, Port |-> p, Version |-> v, WorldName |-> w, Gamemode |-> g,
     Properties |-> NoProperties]

\* strconv.Itoa, for n >= 0: the decimal digits of n
RECURSIVE Itoa(_)
Itoa(n) == IF n < 10 THEN <<n>> ELSE Append(Itoa(n \div 10), n % 10)

\* server A in its base form and with its port, its version or its world
\* name changed; B and C on the next two ports
A0 == MinecraftServerConfig("A", DefaultPort, "v1", "w1", "survival")
APort == MinecraftServerConfig("A", DefaultPort + 1, "v1", "w1", "survival")
AVersion == MinecraftServerConfig("A", DefaultPort, "v2", "w1", "survival")
AWorld == MinecraftServerConfig("A", DefaultPort, "v1", "w2", "survival")
AGamemode == MinecraftServerConfig("A", DefaultPort, "v1", "w1", "creative")
\* A0 with properties: {server-port: "19132"} in the document
AOverride == [A0 EXCEPT !.Properties = [k \in {"server-port"} |-> Itoa(DefaultPort)]]
B0 == MinecraftServerConfig("B", DefaultPort + 1, "v1", "w1", "survival")
C0 == MinecraftServerConfig("C", DefaultPort + 2, "v1", "w1", "survival")

\* config.RepoConfig.Servers: the documents the remote repository can hold
RepoConfigs ==
    { <<>>, <<A0>>, <<APort>>, <<AVersion>>, <<AWorld>>,
      <<A0, B0>>, <<APort, B0>>, <<A0, B0, C0>>, <<C0, A0, B0>> }

\* GetLastCommitSHA: the head commit, identified by the content it holds
CommitSHA(doc) == [tree |-> doc]

VARIABLES
    firstRun,        \* config.Server.FirstRun
    lastCommitSHA,   \* Manager.lastCommitSHA
    servers,         \* Manager.servers: name -> MinecraftServer or NoServer
    orphans,         \* monitor goroutines of processes whose entry is gone
    phase,           \* position of Manager.Start: "start" (before the initial
                     \* poll), "loop" (in the select loop), "cancelled" (in the
                     \* select loop, ctx cancelled) or "done"
    startSpec,       \* history: the spec each tracked instance was started with
    last,            \* history: what pollConfiguration did, if it was the last step:
                     \* where it returned (kind), in which branch (first), the
                     \* head it fetched (head) and what it did, in order (ev)
    mu,              \* Manager.mu: the flow that holds it for writing, if any,
                     \* and the flows that hold it for reading
    at,              \* where each flow stands against a section on m.servers:
                     \* outside, blocked in Lock or RLock, or inside
    boot,            \* what Start has done before its loop: the step reached,
                     \* the archive, the layer files and the recombined file
                     \* on disk, the error of initializeBedrockServer, where
                     \* the executable is, Manager.bedrockPath, and the foreign
                     \* processes on the server ports
    tick             \* the updateServers call in progress, if any: the document,
                     \* the number of its elements done, and the manager state
                     \* threaded through it

vars ==
    <<firstRun, lastCommitSHA, servers, orphans, phase, startSpec, last, mu, at,
      boot, tick>>

(***************************************************************************)
(* Helpers over the manager state threaded through one updateServers call: *)
(* m = [servers, orphans, startSpec, ev, loopVar, fails].  ev is the log   *)
(* of what the call did; loopVar is the set of names whose entry holds the *)
(* address of the range variable of the running loop; fails counts the     *)
(* starts that failed during the call.                                     *)
(*                                                                         *)
(* The Process of an entry is [st, port, mon]: st is "running" or how the  *)
(* process ended, port the port it was launched on, mon whether its        *)
(* monitor goroutine has yet to return.                                    *)
(***************************************************************************)
Tracked(srv) == { n \in Names : srv[n] # NoServer }

ExitKinds == {"clean", "abnormal"}

WaitResults == {"nil", "err", "any"}

\* what cmd.Wait() returns in monitorServer for a process that ended as st:
\* nil only for exit status 0; a process interrupted by killProcessesOnPort
\* may have exited either way
WaitResult(st) ==
    IF st = "clean" THEN "nil" ELSE IF st = "interrupted" THEN "any" ELSE "err"

WaitErrs(res) ==
    IF res = "nil" THEN {FALSE} ELSE IF res = "any" THEN BOOLEAN ELSE {TRUE}

\* a monitor of a deleted entry: the name it was started for, what its
\* cmd.Wait() returns, and the number of polls that ran since the deletion
OrphanKeys == Names \X WaitResults \X (0..MaxLag)

\* actualPort := 20000 + serverConfig.Port - 19132
ActualPort(port) == InternalBase + port - DefaultPort

\* createServerProperties writing the external port as server-port
createServerPropertiesExternalPort(cfg) ==
    LET properties == [k \in {"server-port", "gamemode", "server-name", "level-name"} |->
                          IF k = "server-port" THEN Itoa(cfg.Port)
                          ELSE IF k = "gamemode" THEN cfg.Gamemode
                          ELSE IF k = "server-name" THEN cfg.Name
                          ELSE cfg.WorldName]
    IN [k \in DOMAIN properties \cup DOMAIN cfg.Properties |->
           IF k \in DOMAIN cfg.Properties THEN cfg.Properties[k] ELSE properties[k]]

\* createServerProperties: the entries of the properties file, those that
\* depend on the fields modelled; the custom properties are written over
\* the generated ones
createServerProperties(cfg) ==
    LET properties == [k \in {"server-port", "gamemode", "server-name", "level-name"} |->
                          IF k = "server-port" THEN Itoa(ActualPort(cfg.Port))
                          ELSE IF k = "gamemode" THEN cfg.Gamemode
                          ELSE IF k = "server-name" THEN cfg.Name
                          ELSE cfg.WorldName]
    IN [k \in DOMAIN properties \cup DOMAIN cfg.Properties |->
           IF k \in DOMAIN cfg.Properties THEN cfg.Properties[k] ELSE properties[k]]

serverConfigChanged(old, new) ==
    old.Port # new.Port \/ old.Version # new.Version \/ old.WorldName # new.WorldName

\* lsof -ti :port, then an interrupt and a 2 s wait for every process found,
\* for launched processes that exit on the interrupt: each launched process
\* still running on that port ends.
killProcessesOnPort(srv, port) ==
    [n \in Names |->
        IF srv[n] # NoServer /\ srv[n].Process.st = "running" /\ srv[n].Process.port = port
        THEN [srv[n] EXCEPT !.Process.st = "interrupted"] ELSE srv[n]]

\* stopServer without Process.Kill() and Process.Wait(): the entry is
\* deleted while its process is as it was
stopServerNoWait(m, name) ==
    IF m.servers[name] = NoServer THEN m
    ELSE LET p == m.servers[name].Process
             key == <<name, WaitResult(p.st), 0>>
         IN [m EXCEPT !.servers = [m.servers EXCEPT ![name] = NoServer],
                      !.orphans = IF p.mon /\ p.st # "running"
                                  THEN [k \in OrphanKeys |->
                                           IF k = key THEN m.orphans[k] + 1
                                           ELSE m.orphans[k]]
                                  ELSE m.orphans,
                      !.startSpec = [m.startSpec EXCEPT ![name] = NoSpec],
                      !.loopVar = m.loopVar \ {name},
                      !.ev = Append(m.ev, [op |-> "stop", name |-> name,
                                          was |-> m.servers[name].Status,
                                          exit |-> p.st])]

\* Process.Kill() then Process.Wait(), then delete(m.servers, name); the
\* monitor of the process, if it has not returned yet, outlives the entry.
\* The stop logged in ev tells the status the entry had (was) and how its
\* process has ended when the entry is deleted (exit).
stopServer(m, name) ==
    IF m.servers[name] = NoServer THEN m
    ELSE LET p == m.servers[name].Process
             st == IF p.st = "running" THEN "killed" ELSE p.st
             key == <<name, WaitResult(st), 0>>
         IN [m EXCEPT !.servers = [m.servers EXCEPT ![name] = NoServer],
                      !.orphans = IF p.mon
                                  THEN [k \in OrphanKeys |->
                                           IF k = key THEN m.orphans[k] + 1
                                           ELSE m.orphans[k]]
                                  ELSE m.orphans,
                      !.startSpec = [m.startSpec EXCEPT ![name] = NoSpec],
                      !.loopVar = m.loopVar \ {name},
                      !.ev = Append(m.ev, [op |-> "stop", name |-> name,
                                          was |-> m.servers[name].Status,
                                          exit |-> st])]

StartOutcomes == {"ok", "okUnreclaimed", "mkdirErr", "launchErr"}

\* startServer returning when killProcessesOnPort has terminated nothing
startServerAbortUnreclaimed(m, cfg, outcome) ==
    IF outcome = "mkdirErr"
    THEN [m EXCEPT !.fails = m.fails + 1,
                   !.ev = Append(m.ev, [op |-> "fail", name |-> cfg.Name])]
    ELSE LET reclaimed == killProcessesOnPort(
                              killProcessesOnPort(m.servers, ActualPort(cfg.Port)),
                              IPv6Port)
             ev1 == Append(m.ev, [op |-> "reclaim", name |-> cfg.Name,
                                  port |-> ActualPort(cfg.Port),
                                  ok |-> outcome # "okUnreclaimed"])
         IN IF outcome = "okUnreclaimed"
            THEN [m EXCEPT !.ev = ev1]
            ELSE IF outcome = "launchErr"
            THEN [m EXCEPT !.servers = reclaimed,
                           !.fails = m.fails + 1,
                           !.ev = Append(ev1, [op |-> "fail", name |-> cfg.Name])]
            ELSE LET server == [Config |-> cfg,
                                Process |-> [st |-> "running", mon |-> TRUE,
                                             port |-> ActualPort(cfg.Port)],
                                Status |-> "starting", Port |-> cfg.Port]
                 IN [m EXCEPT !.servers = [reclaimed EXCEPT ![cfg.Name] = server],
                              !.startSpec = [m.startSpec EXCEPT ![cfg.Name] = cfg],
                              !.loopVar = m.loopVar \cup {cfg.Name},
                              !.ev = Append(ev1, [op |-> "start", name |-> cfg.Name,
                                                cfg |-> cfg,
                                                arg |-> Itoa(ActualPort(cfg.Port)),
                                                props |-> createServerProperties(cfg)])]

\* outcome "mkdirErr": os.MkdirAll failed; "launchErr": any later step up to
\* cmd.Start failed; "ok": the process was launched and the entry stored;
\* "okUnreclaimed": the same, after two killProcessesOnPort calls that have
\* terminated nothing (lsof failed, or the processes outlived the
\* interrupt): the error is logged and the start goes on.  The result of
\* the reclaim and its port are logged in ev before the start or the
\* failure; a start is logged with the -port argument of the command line
\* (arg) and the properties file written for it (props).
startServer(m, cfg, outcome) ==
    IF outcome = "mkdirErr"
    THEN [m EXCEPT !.fails = m.fails + 1,
                   !.ev = Append(m.ev, [op |-> "fail", name |-> cfg.Name])]
    ELSE LET reclaimed == IF outcome = "okUnreclaimed" THEN m.servers
                          ELSE killProcessesOnPort(
                                  killProcessesOnPort(m.servers, ActualPort(cfg.Port)),
                                  IPv6Port)
             ev1 == Append(m.ev, [op |-> "reclaim", name |-> cfg.Name,
                                  port |-> ActualPort(cfg.Port),
                                  ok |-> outcome # "okUnreclaimed"])
         IN IF outcome = "launchErr"
            THEN [m EXCEPT !.servers = reclaimed,
                           !.fails = m.fails + 1,
                           !.ev = Append(ev1, [op |-> "fail", name |-> cfg.Name])]
            ELSE LET server == [Config |-> cfg,
                                Process |-> [st |-> "running", mon |-> TRUE,
                                             port |-> ActualPort(cfg.Port)],
                                Status |-> "starting", Port |-> cfg.Port]
                 IN [m EXCEPT !.servers = [reclaimed EXCEPT ![cfg.Name] = server],
                              !.startSpec = [m.startSpec EXCEPT ![cfg.Name] = cfg],
                              !.loopVar = m.loopVar \cup {cfg.Name},
                              !.ev = Append(ev1, [op |-> "start", name |-> cfg.Name,
                                                cfg |-> cfg,
                                                arg |-> Itoa(ActualPort(cfg.Port)),
                                                props |-> createServerProperties(cfg)])]

\* for _, serverConfig := range ...: the one range variable of the loop takes
\* the next element; every entry stored with &serverConfig reads the new value.
AssignLoopVar(m, cfg) ==
    [m EXCEPT !.servers =
        [n \in Names |->
            IF n \in m.loopVar /\ m.servers[n] # NoServer
            THEN [m.servers[n] EXCEPT !.Config = cfg] ELSE m.servers[n]]]

\* the results the environment can give the next start of the call
Possible(m) == IF m.fails < MaxFails THEN StartOutcomes ELSE {"ok", "okUnreclaimed"}

\* the loop body without the check against MaxInstances
AdmitOneNoCap(m0, cfg) ==
    LET m == AssignLoopVar(m0, cfg)
    IN IF m.servers[cfg.Name] # NoServer
       THEN IF serverConfigChanged(m.servers[cfg.Name].Config, cfg)
            THEN { startServer(stopServer(m, cfg.Name), cfg, o) : o \in Possible(m) }
            ELSE {m}
       ELSE { startServer(m, cfg, o) : o \in Possible(m) }

\* the loop body with the check written as len(m.servers) > MaxInstances
AdmitOneOffByOne(m0, cfg) ==
    LET m == AssignLoopVar(m0, cfg)
    IN IF Cardinality(Tracked(m.servers)) > MaxInstances
       THEN {[m EXCEPT !.ev = Append(m.ev, [op |-> "skip", name |-> cfg.Name])]}
       ELSE IF m.servers[cfg.Name] # NoServer
            THEN IF serverConfigChanged(m.servers[cfg.Name].Config, cfg)
                 THEN { startServer(stopServer(m, cfg.Name), cfg, o) : o \in Possible(m) }
                 ELSE {m}
            ELSE { startServer(m, cfg, o) : o \in Possible(m) }

\* the loop body with the check made only before the start of a new name
AdmitOneLateCap(m0, cfg) ==
    LET m == AssignLoopVar(m0, cfg)
    IN IF m.servers[cfg.Name] # NoServer
       THEN IF serverConfigChanged(m.servers[cfg.Name].Config, cfg)
            THEN { startServer(stopServer(m, cfg.Name), cfg, o) : o \in Possible(m) }
            ELSE {m}
       ELSE IF Cardinality(Tracked(m.servers)) >= MaxInstances
            THEN {[m EXCEPT !.ev = Append(m.ev, [op |-> "skip", name |-> cfg.Name])]}
            ELSE { startServer(m, cfg, o) : o \in Possible(m) }

\* the loop body of a loop that a failed start ends (no later element is
\* processed)
AdmitOneAbortAfterFail(m0, cfg) ==
    IF m0.fails > 0 THEN {m0}
    ELSE LET m == AssignLoopVar(m0, cfg)
         IN IF Cardinality(Tracked(m.servers)) >= MaxInstances
            THEN {[m EXCEPT !.ev = Append(m.ev, [op |-> "skip", name |-> cfg.Name])]}
            ELSE IF m.servers[cfg.Name] # NoServer
                 THEN IF serverConfigChanged(m.servers[cfg.Name].Config, cfg)
                      THEN { startServer(stopServer(m, cfg.Name), cfg, o) : o \in Possible(m) }
                      ELSE {m}
                 ELSE { startServer(m, cfg, o) : o \in Possible(m) }

\* the loop body with a cap on the entries whose status is "starting" only
AdmitOneCapCountsLive(m0, cfg) ==
    LET m == AssignLoopVar(m0, cfg)
    IN IF Cardinality({ n \in Tracked(m.servers) : m.servers[n].Status = "starting" })
             >= MaxInstances
       THEN {[m EXCEPT !.ev = Append(m.ev, [op |-> "skip", name |-> cfg.Name])]}
       ELSE IF m.servers[cfg.Name] # NoServer
            THEN IF serverConfigChanged(m.servers[cfg.Name].Config, cfg)
                 THEN { startServer(stopServer(m, cfg.Name), cfg, o) : o \in Possible(m) }
                 ELSE {m}
            ELSE { startServer(m, cfg, o) : o \in Possible(m) }

\* the loop body starting a changed server over its entry, without the stop
AdmitOneRestartNoStop(m0, cfg) ==
    LET m == AssignLoopVar(m0, cfg)
    IN IF Cardinality(Tracked(m.servers)) >= MaxInstances
       THEN {[m EXCEPT !.ev = Append(m.ev, [op |-> "skip", name |-> cfg.Name])]}
       ELSE IF m.servers[cfg.Name] # NoServer
            THEN IF serverConfigChanged(m.servers[cfg.Name].Config, cfg)
                 THEN { startServer(m, cfg, o) : o \in Possible(m) }
                 ELSE {m}
            ELSE { startServer(m, cfg, o) : o \in Possible(m) }

\* body of the second loop of updateServers for one element: the set of
\* states it can leave, one per result of the start it attempts
AdmitOne(m0, cfg) ==
    LET m == AssignLoopVar(m0, cfg)
    IN IF Cardinality(Tracked(m.servers)) >= MaxInstances
       THEN {[m EXCEPT !.ev = Append(m.ev, [op |-> "skip", name |-> cfg.Name])]}
       ELSE IF m.servers[cfg.Name] # NoServer
            THEN IF serverConfigChanged(m.servers[cfg.Name].Config, cfg)
                 THEN { startServer(stopServer(m, cfg.Name), cfg, o) : o \in Possible(m) }
                 ELSE {m}
            ELSE { startServer(m, cfg, o) : o \in Possible(m) }

\* stop each name of a set, one after the other (for name := range m.servers)
RECURSIVE StopEach(_, _)
StopEach(m, names) ==
    IF names = {} THEN m
    ELSE LET n == CHOOSE x \in names : TRUE
         IN StopEach(stopServer(m, n), names \ {n})

DocNames(doc) == { doc[i].Name : i \in 1..Len(doc) }

\* the states the second loop can leave after the first k elements of doc,
\* entered from the states in first
RECURSIVE AdmitUpTo(_, _, _)
AdmitUpTo(first, doc, k) ==
    IF k = 0 THEN first
    ELSE UNION { AdmitOne(x, doc[k]) : x \in AdmitUpTo(first, doc, k - 1) }

\* updateServers without its first loop
updateServersNoRemoval(m, doc) ==
    AdmitUpTo({m}, doc, Len(doc))

\* updateServers with its two loops in the other order
updateServersRemovalLast(m, doc) ==
    { StopEach(x, Tracked(x.servers) \ DocNames(doc)) :
         x \in AdmitUpTo({m}, doc, Len(doc)) }

\* the states one updateServers call can leave
updateServers(m, doc) ==
    AdmitUpTo({StopEach(m, Tracked(m.servers) \ DocNames(doc))}, doc, Len(doc))

(***************************************************************************)
(* initializeBedrockServer: the archive versions/bedrock-server.zip is     *)
(* split into NumLayers layer files, the layers are recombined, the        *)
(* recombined file is compared with the archive by SHA-256 and extracted.  *)
(* A file is the sequence of its bytes.                                    *)
(***************************************************************************)
NumLayers == 10          \* for i := 0; i < 10; i++
MaxSize == 11            \* largest archive of the model, in bytes
MaxByte == 2             \* bytes of the model are 0..MaxByte

Bytes == 0..MaxByte

\* the archives of the model: every size up to MaxSize, with bytes that
\* differ from one position to the next
Payloads ==
    { [i \in 1..n |-> (i + r) % (MaxByte + 1)] : n \in 0..MaxSize, r \in Bytes }

\* io.CopyN(layer, file, n) from offset off: n bytes, or fewer at the end of
\* the file (io.EOF is not an error for splitArchive)
CopyN(data, off, n) ==
    SubSeq(data, off + 1, IF off + n <= Len(data) THEN off + n ELSE Len(data))

LayerFile(data) == [present |-> TRUE, data |-> data]

NoLayer == [present |-> FALSE, data |-> <<>>]

\* the loop of splitArchive from layer i on, the file being read at off,
\* with the first NumLayers - 1 layers of layerSize bytes and nothing more
\* for the last one
RECURSIVE SplitNoRemainder(_, _, _, _)
SplitNoRemainder(data, i, off, acc) ==
    IF i = NumLayers THEN acc
    ELSE LET chunk == CopyN(data, off, Len(data) \div NumLayers)
         IN SplitNoRemainder(data, i + 1, off + Len(chunk),
                             Append(acc, LayerFile(chunk)))

\* splitArchive forgetting the remainder
splitArchiveNoRemainder(data) == SplitNoRemainder(data, 0, 0, <<>>)

\* the loop of splitArchive with the remainder added to layer 0
RECURSIVE SplitRemainderFirst(_, _, _, _)
SplitRemainderFirst(data, i, off, acc) ==
    IF i = NumLayers THEN acc
    ELSE LET layerSize == Len(data) \div NumLayers
             remainder == Len(data) % NumLayers
             actualLayerSize == IF i = 0 THEN layerSize + remainder ELSE layerSize
             chunk == CopyN(data, off, actualLayerSize)
         IN SplitRemainderFirst(data, i + 1, off + Len(chunk),
                                Append(acc, LayerFile(chunk)))

\* splitArchive giving the remainder to the first layer
splitArchiveRemainderFirst(data) == SplitRemainderFirst(data, 0, 0, <<>>)

\* the loop of splitArchive from layer i on, the file being read at off:
\* layer i is at index i + 1 of the result
RECURSIVE SplitFrom(_, _, _, _)
SplitFrom(data, i, off, acc) ==
    IF i = NumLayers THEN acc
    ELSE LET layerSize == Len(data) \div NumLayers
             remainder == Len(data) % NumLayers
             actualLayerSize ==
                 IF i = NumLayers - 1 THEN layerSize + remainder ELSE layerSize
             chunk == CopyN(data, off, actualLayerSize)
         IN SplitFrom(data, i + 1, off + Len(chunk), Append(acc, LayerFile(chunk)))

\* splitArchive: the layer files it leaves on disk
splitArchive(data) == SplitFrom(data, 0, 0, <<>>)

\* the loop of recombineLayers from layer i on: os.Stat of a missing layer
\* file ends it with an error, else the layer is copied after the output
RECURSIVE CombineFrom(_, _, _)
CombineFrom(layers, i, output) ==
    IF i = NumLayers THEN [err |-> "none", output |-> output]
    ELSE IF ~layers[i + 1].present
         THEN [err |-> "layerNotFound", output |-> output]
         ELSE CombineFrom(layers, i + 1, output \o layers[i + 1].data)

\* calculateFileHash: SHA-256 of the content, taken as free of collisions
calculateFileHash(data) == [sha256 |-> data]

\* verifyIntegrity comparing the sizes of the two files
verifyIntegritySizeOnly(original, recombined) ==
    IF Len(original) # Len(recombined) THEN "integrity" ELSE "none"

\* verifyIntegrity: the error it returns
verifyIntegrity(original, recombined) ==
    IF calculateFileHash(original) # calculateFileHash(recombined)
    THEN "integrity" ELSE "none"

\* recombineLayers: the error it returns and the recombined file it leaves
recombineLayers(original, layers) ==
    LET c == CombineFrom(layers, 0, <<>>)
    IN IF c.err # "none" THEN c
       ELSE [err |-> verifyIntegrity(original, c.output), output |-> c.output]

\* what can happen to the layer files between splitArchive and
\* recombineLayers: one byte of one layer is changed, or one layer removed
FlipByte(layers, i, j) ==
    [layers EXCEPT ![i + 1].data =
        [layers[i + 1].data EXCEPT ![j] = (layers[i + 1].data[j] + 1) % (MaxByte + 1)]]

RemoveLayer(layers, i) == [layers EXCEPT ![i + 1] = NoLayer]

\* extractArchive: where the executable is after unzip (or tar): at the
\* top of the extraction directory, deeper in it (findBedrockExecutable),
\* or nowhere; or the extraction itself fails
ExtractOutcomes == {"top", "nested", "none", "extractErr"}

extractArchive(outcome) ==
    IF outcome = "extractErr" THEN [err |-> "extract", located |-> "none"]
    ELSE IF outcome = "none" THEN [err |-> "notFound", located |-> "none"]
    ELSE [err |-> "none", located |-> outcome]

\* m.bedrockPath = Abs("./bedrock-server-extracted/bedrock_server")
ExtractedPath == "top"

\* killProcessesOnPort on the processes lsof reports, each [pid, onInt]:
\* process.Signal(os.Interrupt), a 2 s sleep, then
\* process.Signal(os.Signal(nil)) == nil as the test that the process is
\* still running.  Signal returns "unsupported signal type" for a nil
\* os.Signal, whatever the process, so the test is false and Kill is not
\* sent: the processes that exit on the interrupt are gone, the others stay.
SignalNilSucceeds(p) == FALSE

AfterInterrupt(procs) == { p \in procs : p.onInt = "ignores" }

killForeignOnPort(procs, lsofOk) ==
    IF ~lsofOk THEN procs
    ELSE { p \in AfterInterrupt(procs) : ~SignalNilSucceeds(p) }

\* the foreign processes that can hold the server ports when Start is called
ForeignSets ==
    SUBSET { [pid |-> 1, onInt |-> "exits"], [pid |-> 2, onInt |-> "ignores"] }

\* boot once Start is about to run the initial pollConfiguration, for a
\* run without an archive in versions/
Booted ==
    [step |-> "ready", hasArchive |-> FALSE, archive |-> <<>>, layers |-> <<>>,
     tampered |-> "no", recombined |-> <<>>, err |-> "none", located |-> "none",
     bedrockPath |-> "configured", foreign |-> {}, found |-> {}, lsofOk |-> TRUE,
     cfgFirstRun |-> FALSE]

\* no updateServers call in progress
NoTick == [idle |-> TRUE]

(***************************************************************************)
(* State after NewManager, once Start has initialized the executable and   *)
(* is about to run the initial pollConfiguration.                          *)
(***************************************************************************)
NoServers == [n \in Names |-> NoServer]

\* the flows that touch m.servers: the goroutine of Start (ticks, then
\* stopAllServers), the monitor goroutines, and the callers of GetStatus
Writers == {"loop", "mon1", "mon2"}

Readers == {"status1", "status2"}

Flows == Writers \cup Readers

\* sync.RWMutex, unlocked
Unlocked == [writer |-> "none", readers |-> {}]

NoHead == [unknown |-> TRUE]

NoPoll ==
    [kind |-> "none", first |-> FALSE, head |-> NoHead, ev |-> <<>>]

\* a manager that is in first-run mode whatever its configuration says
NewManagerFirstRunOn(cfgFirstRun) ==
    [firstRun |-> TRUE, lastCommitSHA |-> NoSHA, servers |-> NoServers]

\* NewManager(cfg, logger): the manager keeps cfg, whose Server.FirstRun is
\* cfgFirstRun, and an empty map; lastCommitSHA has its zero value
NewManager(cfgFirstRun) ==
    [firstRun |-> cfgFirstRun, lastCommitSHA |-> NoSHA, servers |-> NoServers]

Init ==
    /\ \E c \in BOOLEAN :
          LET m == NewManager(c)
          IN /\ firstRun = m.firstRun
             /\ lastCommitSHA = m.lastCommitSHA
             /\ servers = m.servers
             /\ boot = [Booted EXCEPT !.cfgFirstRun = c]
    /\ orphans = [k \in OrphanKeys |-> 0]
    /\ phase = "start"
    /\ startSpec = [n \in Names |-> NoSpec]
    /\ last = NoPoll
    /\ mu = Unlocked
    /\ at = [f \in Flows |-> "out"]
    /\ tick = NoTick

\* server.Process != nil && server.Process.Process != nil: the entry holds
\* the handle of a launched process.  startServer stores the handle with the
\* entry and no code clears it.
NoProcess == [nil |-> TRUE]

HasHandle(server) == server.Process # NoProcess

\* a launched process ends on its own, with exit status 0 or not
ProcExit ==
    /\ \E n \in Tracked(servers), st \in ExitKinds :
          /\ servers[n].Process.st = "running"
          /\ servers' = [servers EXCEPT ![n].Process.st = st]
    /\ last' = NoPoll
    /\ UNCHANGED <<firstRun, lastCommitSHA, orphans, phase, startSpec, mu, at, boot, tick>>

\* the status assignment with its two branches exchanged
SetStatusSwapped(srv, name, err) ==
    IF srv[name] # NoServer
    THEN [srv EXCEPT ![name].Status = IF err THEN "stopped" ELSE "crashed"]
    ELSE srv

\* if server, exists := m.servers[name]; exists { server.Status = ... }
SetStatus(srv, name, err) ==
    IF srv[name] # NoServer
    THEN [srv EXCEPT ![name].Status = IF err THEN "crashed" ELSE "stopped"]
    ELSE srv

\* go m.monitorServer(name, cmd), from cmd.Wait() returning to its return,
\* for the process the entry of the name still holds
MonitorOwn ==
    /\ \E n \in Tracked(servers) :
          /\ servers[n].Process.mon
          /\ servers[n].Process.st # "running"
          /\ \E err \in WaitErrs(WaitResult(servers[n].Process.st)) :
                servers' = SetStatus([servers EXCEPT ![n].Process.mon = FALSE], n, err)
    /\ last' = NoPoll
    /\ UNCHANGED <<firstRun, lastCommitSHA, orphans, phase, startSpec, mu, at, boot, tick>>

\* the same, for a process whose entry stopServer has deleted
MonitorOrphan ==
    /\ \E k \in OrphanKeys :
          /\ orphans[k] > 0
          /\ orphans' = [orphans EXCEPT ![k] = @ - 1]
          /\ \E err \in WaitErrs(k[2]) : servers' = SetStatus(servers, k[1], err)
    /\ last' = NoPoll
    /\ UNCHANGED <<firstRun, lastCommitSHA, phase, startSpec, mu, at, boot, tick>>

monitorServer == MonitorOwn \/ MonitorOrphan

\* the ticker period is long against the wake-up of a goroutine: a poll runs
\* only when no monitor of a deleted entry has already waited MaxLag polls
PollDue == \A k \in OrphanKeys : k[3] = MaxLag => orphans[k] = 0

Aged(o) ==
    [k \in OrphanKeys |-> IF k[3] = 0 THEN 0 ELSE o[<<k[1], k[2], k[3] - 1>>]]

Manager(ev) ==
    [servers |-> servers, orphans |-> Aged(orphans), startSpec |-> startSpec,
     ev |-> ev, loopVar |-> {}, fails |-> 0]

PollRecord(kind, first, head, ev) ==
    [kind |-> kind, first |-> first, head |-> head, ev |-> ev]

\* pollConfiguration returning at "Failed to get last commit SHA"
PollShaError ==
    /\ last' = PollRecord("shaErr", FALSE, NoHead, <<>>)
    /\ orphans' = Aged(orphans)
    /\ UNCHANGED <<lastCommitSHA, servers, startSpec>>

\* the first-run branch: the SHA is stored, then the document is fetched
PollFirstRun(head) ==
    /\ firstRun /\ lastCommitSHA = NoSHA
    /\ lastCommitSHA' = CommitSHA(head)
    /\ \/ /\ last' = PollRecord("docErr", TRUE, head, <<[op |-> "sha"]>>)
          /\ orphans' = Aged(orphans)
          /\ UNCHANGED <<servers, startSpec>>
       \/ \E m \in updateServers(Manager(<<[op |-> "sha"]>>), head) :
                /\ servers' = m.servers
                /\ orphans' = m.orphans
                /\ startSpec' = m.startSpec
                /\ last' = PollRecord("applied", TRUE, head, m.ev)

\* the poll without the return on an equal SHA
PollNoChangeReapply(head) ==
    /\ ~(firstRun /\ lastCommitSHA = NoSHA)
    /\ CommitSHA(head) = lastCommitSHA
    /\ \E m \in updateServers(Manager(<<>>), head) :
          /\ servers' = m.servers
          /\ orphans' = m.orphans
          /\ startSpec' = m.startSpec
          /\ last' = PollRecord("applied", FALSE, head, Append(m.ev, [op |-> "sha"]))
    /\ UNCHANGED lastCommitSHA

\* if commitSHA == m.lastCommitSHA { return }
PollNoChange(head) ==
    /\ ~(firstRun /\ lastCommitSHA = NoSHA)
    /\ CommitSHA(head) = lastCommitSHA
    /\ last' = PollRecord("same", FALSE, head, <<>>)
    /\ orphans' = Aged(orphans)
    /\ UNCHANGED <<lastCommitSHA, servers, startSpec>>

\* the poll going on with an empty document when GetConfig fails
PollChangedNoReturn(head) ==
    /\ ~(firstRun /\ lastCommitSHA = NoSHA)
    /\ CommitSHA(head) # lastCommitSHA
    /\ \/ /\ \E m \in updateServers(Manager(<<>>), <<>>) :
                   /\ servers' = m.servers
                   /\ orphans' = m.orphans
                   /\ startSpec' = m.startSpec
                   /\ last' = PollRecord("docErr", FALSE, head, m.ev)
          /\ UNCHANGED lastCommitSHA
       \/ /\ \E m \in updateServers(Manager(<<>>), head) :
                   /\ servers' = m.servers
                   /\ orphans' = m.orphans
                   /\ startSpec' = m.startSpec
                   /\ last' = PollRecord("applied", FALSE, head,
                                         Append(m.ev, [op |-> "sha"]))
          /\ lastCommitSHA' = CommitSHA(head)

\* the SHA differs: the document is fetched, applied, and the SHA stored
PollChanged(head) ==
    /\ ~(firstRun /\ lastCommitSHA = NoSHA)
    /\ CommitSHA(head) # lastCommitSHA
    /\ \/ /\ last' = PollRecord("docErr", FALSE, head, <<>>)
          /\ orphans' = Aged(orphans)
          /\ UNCHANGED <<lastCommitSHA, servers, startSpec>>
       \/ /\ \E m \in updateServers(Manager(<<>>), head) :
                   /\ servers' = m.servers
                   /\ orphans' = m.orphans
                   /\ startSpec' = m.startSpec
                   /\ last' = PollRecord("applied", FALSE, head,
                                         Append(m.ev, [op |-> "sha"]))
          /\ lastCommitSHA' = CommitSHA(head)

\* one pollConfiguration call (the initial one or one per ticker event),
\* against the head the remote branch has at that moment
pollConfigurationFrom(docs) ==
    /\ phase \in {"start", "loop", "cancelled"}
    /\ phase' = IF phase = "cancelled" THEN "cancelled" ELSE "loop"
    /\ PollDue
    /\ \/ PollShaError
       \/ \E head \in docs :
             \/ PollFirstRun(head)
             \/ PollNoChange(head)
             \/ PollChanged(head)
    /\ UNCHANGED <<firstRun, mu, at, boot, tick>>

pollConfiguration == pollConfigurationFrom(RepoConfigs)

\* stopAllServers stopping only the entries whose status is "starting"
stopAllServersSkipExited ==
    /\ phase \in {"loop", "cancelled"}
    /\ LET m == StopEach([Manager(<<>>) EXCEPT !.orphans = orphans],
                          { n \in Tracked(servers) : servers[n].Status = "starting" })
       IN /\ servers' = m.servers
          /\ orphans' = m.orphans
          /\ startSpec' = m.startSpec
          /\ last' = PollRecord("stopAll", FALSE, NoHead, m.ev)
    /\ phase' = "done"
    /\ UNCHANGED <<firstRun, lastCommitSHA, mu, at, boot, tick>>

\* case <-ctx.Done(): m.stopAllServers(); return.  Taken from the loop with
\* ctx cancelled; from "loop", the cancellation and the case are one step.
\* The stops are logged in last, with kind "stopAll".
stopAllServers ==
    /\ phase \in {"loop", "cancelled"}
    /\ LET m == StopEach([Manager(<<>>) EXCEPT !.orphans = orphans],
                          Tracked(servers))
       IN /\ servers' = m.servers
          /\ orphans' = m.orphans
          /\ startSpec' = m.startSpec
          /\ last' = PollRecord("stopAll", FALSE, NoHead, m.ev)
    /\ phase' = "done"
    /\ UNCHANGED <<firstRun, lastCommitSHA, mu, at, boot, tick>>

Next == ProcExit \/ monitorServer \/ pollConfiguration \/ stopAllServers

Spec == Init /\ [][Next]_vars

(***************************************************************************)
(* The same manager with the cancellation of ctx as a step of its own,     *)
(* against a smaller family of documents, and with the scheduling the      *)
(* runtime gives: a monitor goroutine whose cmd.Wait() has returned gets   *)
(* the mutex (sync.Mutex does not starve a waiter), and a select with      *)
(* ctx.Done() ready takes that case after finitely many ticker cases (the  *)
(* choice among ready cases is uniformly random).                          *)
(***************************************************************************)
LiveConfigs == { <<>>, <<A0>>, <<AWorld>>, <<A0, B0>> }

\* the shutdown signal: ctx is cancelled while Start is in its loop
Cancel ==
    /\ phase = "loop"
    /\ phase' = "cancelled"
    /\ last' = NoPoll
    /\ UNCHANGED <<firstRun, lastCommitSHA, servers, orphans, startSpec, mu, at, boot, tick>>

LivePoll ==
    /\ pollConfiguration
    /\ last'.kind = "shaErr" \/ last'.head \in LiveConfigs

LiveStopAll ==
    /\ phase = "cancelled"
    /\ stopAllServers

\* the monitor of the process the entry of n holds returns
MonitorOf(n) ==
    /\ MonitorOwn
    /\ servers[n] # NoServer
    /\ servers'[n] # servers[n]

LiveNext == ProcExit \/ monitorServer \/ LivePoll \/ Cancel \/ LiveStopAll

LiveSpec ==
    /\ Init
    /\ [][LiveNext]_vars
    /\ \A n \in Names : WF_vars(MonitorOf(n))
    /\ WF_vars(LiveStopAll)

\* GetStatus: the counts of the snapshot.  An entry counts as running when
\* its Status is "running", and as stopped otherwise.
GetStatus(srv) ==
    [TotalServers |-> Cardinality(Tracked(srv)),
     Running |-> Cardinality({ n \in Tracked(srv) : srv[n].Status = "running" }),
     Stopped |-> Cardinality({ n \in Tracked(srv) : srv[n].Status # "running" })]

(***************************************************************************)
(* The sections on m.servers and Manager.mu.  Every access to m.servers is *)
(* in pollConfiguration after its m.mu.Lock() (updateServers, startServer  *)
(* and stopServer run there), in stopAllServers, in monitorServer after    *)
(* cmd.Wait(), or in GetStatus.  Each flow calls Lock or RLock, blocks     *)
(* until the mutex grants it, works on the map and releases the mutex on   *)
(* return (defer).  The content of the map is left aside here.             *)
(***************************************************************************)
fleetVars ==
    <<firstRun, lastCommitSHA, servers, orphans, phase, startSpec, last, boot, tick>>

Monitors == {"mon1", "mon2"}

\* the flow is between its Lock or RLock and its return
Inside(f) == at[f] \in {"in", "stopIn"}

\* sync.RWMutex: Lock returns when no flow holds the mutex, RLock when no
\* flow holds it for writing
Lock(f) == mu = Unlocked /\ mu' = [mu EXCEPT !.writer = f]

Unlock(f) == mu' = [mu EXCEPT !.writer = "none"]

RLock(f) == mu.writer = "none" /\ mu' = [mu EXCEPT !.readers = mu.readers \cup {f}]

RUnlock(f) == mu' = [mu EXCEPT !.readers = mu.readers \ {f}]

\* pollConfiguration has fetched a document to apply and calls m.mu.Lock()
pollConfigurationLock ==
    /\ at["loop"] = "out"
    /\ at' = [at EXCEPT !["loop"] = "wait"]
    /\ UNCHANGED <<mu, fleetVars>>

\* the lock is granted: updateServers runs
pollConfigurationSection ==
    /\ at["loop"] = "wait"
    /\ Lock("loop")
    /\ at' = [at EXCEPT !["loop"] = "in"]
    /\ UNCHANGED fleetVars

\* defer m.mu.Unlock()
pollConfigurationUnlock ==
    /\ at["loop"] = "in"
    /\ Unlock("loop")
    /\ at' = [at EXCEPT !["loop"] = "out"]
    /\ UNCHANGED fleetVars

\* case <-ctx.Done(): stopAllServers calls m.mu.Lock()
stopAllServersLock ==
    /\ at["loop"] = "out"
    /\ at' = [at EXCEPT !["loop"] = "stopWait"]
    /\ UNCHANGED <<mu, fleetVars>>

stopAllServersSection ==
    /\ at["loop"] = "stopWait"
    /\ Lock("loop")
    /\ at' = [at EXCEPT !["loop"] = "stopIn"]
    /\ UNCHANGED fleetVars

\* stopAllServers and then Start return
stopAllServersUnlock ==
    /\ at["loop"] = "stopIn"
    /\ Unlock("loop")
    /\ at' = [at EXCEPT !["loop"] = "done"]
    /\ UNCHANGED fleetVars

\* monitorServer going on to the map without m.mu.Lock()
monitorServerNoLock(f) ==
    /\ at[f] = "out"
    /\ at' = [at EXCEPT ![f] = "in"]
    /\ UNCHANGED <<mu, fleetVars>>

\* cmd.Wait() has returned in a monitor goroutine, which calls m.mu.Lock()
monitorServerLock(f) ==
    /\ at[f] = "out"
    /\ at' = [at EXCEPT ![f] = "wait"]
    /\ UNCHANGED <<mu, fleetVars>>

\* the lock is granted: the entry is looked up and its Status set
monitorServerSection(f) ==
    /\ at[f] = "wait"
    /\ Lock(f)
    /\ at' = [at EXCEPT ![f] = "in"]
    /\ UNCHANGED fleetVars

monitorServerUnlock(f) ==
    /\ at[f] = "in"
    /\ Unlock(f)
    /\ at' = [at EXCEPT ![f] = "out"]
    /\ UNCHANGED fleetVars

\* GetStatus calls m.mu.RLock()
GetStatusRLock(f) ==
    /\ at[f] = "out"
    /\ at' = [at EXCEPT ![f] = "wait"]
    /\ UNCHANGED <<mu, fleetVars>>

\* the read lock is granted: the map is counted and ranged over
GetStatusSection(f) ==
    /\ at[f] = "wait"
    /\ RLock(f)
    /\ at' = [at EXCEPT ![f] = "in"]
    /\ UNCHANGED fleetVars

\* defer m.mu.RUnlock()
GetStatusRUnlock(f) ==
    /\ at[f] = "in"
    /\ RUnlock(f)
    /\ at' = [at EXCEPT ![f] = "out"]
    /\ UNCHANGED fleetVars

LockNext ==
    \/ pollConfigurationLock \/ pollConfigurationSection \/ pollConfigurationUnlock
    \/ stopAllServersLock \/ stopAllServersSection \/ stopAllServersUnlock
    \/ \E f \in Monitors :
          monitorServerLock(f) \/ monitorServerSection(f) \/ monitorServerUnlock(f)
    \/ \E f \in Readers :
          GetStatusRLock(f) \/ GetStatusSection(f) \/ GetStatusRUnlock(f)

LockSpec == Init /\ [][LockNext]_vars

(***************************************************************************)
(* Start from its first statement: cleanupPortsOnStartup, then             *)
(* initializeBedrockServer, whose error makes Start return, then the       *)
(* initial pollConfiguration and the ticks.  The steps of                  *)
(* initializeBedrockServer are taken one by one, so that the layer files   *)
(* can change on disk between splitArchive and recombineLayers.  The       *)
(* launched processes keep running here.                                   *)
(***************************************************************************)
BootConfigs == { <<A0>> }

bootFrame == <<firstRun, lastCommitSHA, servers, orphans, startSpec, last, mu, at, tick>>

BootInit ==
    /\ orphans = [k \in OrphanKeys |-> 0]
    /\ phase = "init"
    /\ startSpec = [n \in Names |-> NoSpec]
    /\ last = NoPoll
    /\ mu = Unlocked
    /\ at = [f \in Flows |-> "out"]
    /\ tick = NoTick
    /\ \E h \in BOOLEAN, f \in ForeignSets, c \in BOOLEAN :
          \E a \in IF h THEN Payloads ELSE {<<>>} :
             LET m == NewManager(c)
             IN /\ firstRun = m.firstRun
                /\ lastCommitSHA = m.lastCommitSHA
                /\ servers = m.servers
                /\ boot = [Booted EXCEPT !.step = "new", !.hasArchive = h,
                                          !.archive = a, !.bedrockPath = "unset",
                                          !.foreign = f, !.cfgFirstRun = c]

\* cleanupPortsOnStartup: killProcessesOnPort for each port of its list;
\* an error of it is logged
cleanupPortsOnStartup ==
    /\ boot.step = "new"
    /\ \E ok \in BOOLEAN :
          boot' = [boot EXCEPT !.step = "cleaned",
                               !.lsofOk = ok,
                               !.found = IF ok THEN boot.foreign ELSE {},
                               !.foreign = killForeignOnPort(boot.foreign, ok)]
    /\ UNCHANGED <<phase, bootFrame>>

\* Start going on to its loop whatever initializeBedrockServer returned
PhaseAfterInitIgnoreErr(err) == "start"

\* if err := m.initializeBedrockServer(); err != nil { ...; return }
PhaseAfterInit(err) == IF err # "none" THEN "done" ELSE "start"

\* initializeBedrockServer returns with err
InitReturns(b, err) ==
    /\ boot' = [b EXCEPT !.step = IF err # "none" THEN "failed" ELSE "ready",
                         !.err = err]
    /\ phase' = PhaseAfterInit(err)

\* no archive in versions/: the configured path is used
initNoArchive ==
    /\ boot.step = "cleaned"
    /\ ~boot.hasArchive
    /\ InitReturns([boot EXCEPT !.bedrockPath = "configured"], "none")
    /\ UNCHANGED bootFrame

\* cleanupLayers and splitArchive
initSplit ==
    /\ boot.step = "cleaned"
    /\ boot.hasArchive
    /\ \/ InitReturns(boot, "split")
       \/ /\ boot' = [boot EXCEPT !.step = "split",
                                   !.layers = splitArchive(boot.archive)]
          /\ UNCHANGED phase
    /\ UNCHANGED bootFrame

\* the layer files change on disk before they are recombined
Tamper ==
    /\ boot.step = "split"
    /\ boot.tampered = "no"
    /\ \E i \in 0..(NumLayers - 1) :
          \/ \E j \in 1..Len(boot.layers[i + 1].data) :
                boot' = [boot EXCEPT !.layers = FlipByte(boot.layers, i, j),
                                     !.tampered = "flip"]
          \/ boot' = [boot EXCEPT !.layers = RemoveLayer(boot.layers, i),
                                  !.tampered = "remove"]
    /\ UNCHANGED <<phase, bootFrame>>

\* recombineLayers, with its verifyIntegrity
initRecombine ==
    /\ boot.step = "split"
    /\ LET r == recombineLayers(boot.archive, boot.layers)
           b == [boot EXCEPT !.recombined = r.output]
       IN IF r.err # "none"
          THEN InitReturns(b, r.err)
          ELSE boot' = [b EXCEPT !.step = "recombined"] /\ UNCHANGED phase
    /\ UNCHANGED bootFrame

\* extractArchive, then m.bedrockPath is set
initExtract ==
    /\ boot.step = "recombined"
    /\ \E o \in ExtractOutcomes :
          LET e == extractArchive(o)
          IN IF e.err # "none"
             THEN InitReturns(boot, e.err)
             ELSE InitReturns([boot EXCEPT !.located = e.located,
                                          !.bedrockPath = ExtractedPath], "none")
    /\ UNCHANGED bootFrame

initializeBedrockServer == initNoArchive \/ initSplit \/ initRecombine \/ initExtract

BootPoll ==
    /\ pollConfiguration
    /\ last'.kind = "shaErr" \/ last'.head \in BootConfigs

BootNext == cleanupPortsOnStartup \/ initializeBedrockServer \/ Tamper \/ BootPoll

BootSpec == BootInit /\ [][BootNext]_vars

(***************************************************************************)
(* The loop of Start with the shutdown signal arriving at any moment.  A   *)
(* pollConfiguration that applies a document is taken one element of the   *)
(* second loop of updateServers at a time; tick holds the position of the  *)
(* call: the document, the number of elements done, the events so far, and *)
(* in late the number of elements done since ctx was cancelled.  The call  *)
(* holds m.mu from before updateServers to its return, so no monitor       *)
(* writes a status in between; a process can exit at any moment.           *)
(***************************************************************************)
ShutdownConfigs == { <<>>, <<A0>>, <<A0, B0>>, <<AWorld, B0>> }

\* the goroutine of Start is at its select (or before the initial poll)
AtSelect == tick.idle

TickManager ==
    [servers |-> servers, orphans |-> orphans, startSpec |-> startSpec,
     ev |-> tick.ev, loopVar |-> tick.loopVar, fails |-> tick.fails]

\* a pollConfiguration that returns before updateServers
pollConfigurationSkip ==
    /\ AtSelect
    /\ pollConfiguration
    /\ last'.kind # "applied"
    /\ last'.kind = "shaErr" \/ last'.head \in ShutdownConfigs

\* pollConfiguration up to the end of the first loop of updateServers
pollConfigurationEnter ==
    /\ AtSelect
    /\ phase \in {"start", "loop", "cancelled"}
    /\ phase' = IF phase = "cancelled" THEN "cancelled" ELSE "loop"
    /\ PollDue
    /\ \E head \in ShutdownConfigs :
          LET first == firstRun /\ lastCommitSHA = NoSHA
              m == StopEach(Manager(IF first THEN <<[op |-> "sha"]>> ELSE <<>>),
                            Tracked(servers) \ DocNames(head))
          IN /\ first \/ CommitSHA(head) # lastCommitSHA
             /\ lastCommitSHA' = IF first THEN CommitSHA(head) ELSE lastCommitSHA
             /\ servers' = m.servers
             /\ orphans' = m.orphans
             /\ startSpec' = m.startSpec
             /\ tick' = [idle |-> FALSE, doc |-> head, k |-> 0, first |-> first,
                         ev |-> m.ev, loopVar |-> m.loopVar, fails |-> m.fails,
                         late |-> 0]
    /\ last' = NoPoll
    /\ UNCHANGED <<firstRun, mu, at, boot>>

\* one element of the second loop of updateServers
updateServersStep ==
    /\ ~tick.idle
    /\ tick.k < Len(tick.doc)
    /\ \E m \in AdmitOne(TickManager, tick.doc[tick.k + 1]) :
          /\ servers' = m.servers
          /\ orphans' = m.orphans
          /\ startSpec' = m.startSpec
          /\ tick' = [tick EXCEPT !.k = @ + 1, !.ev = m.ev,
                                  !.loopVar = m.loopVar, !.fails = m.fails,
                                  !.late = IF phase = "cancelled" THEN @ + 1 ELSE @]
    /\ last' = NoPoll
    /\ UNCHANGED <<firstRun, lastCommitSHA, phase, mu, at, boot>>

\* the end of the second loop: the SHA is stored (it was stored before the
\* fetch on the first run) and pollConfiguration returns to the select
pollConfigurationReturn ==
    /\ ~tick.idle
    /\ tick.k = Len(tick.doc)
    /\ lastCommitSHA' = IF tick.first THEN lastCommitSHA ELSE CommitSHA(tick.doc)
    /\ last' = PollRecord("applied", tick.first, tick.doc,
                          IF tick.first THEN tick.ev
                          ELSE Append(tick.ev, [op |-> "sha"]))
    /\ tick' = NoTick
    /\ UNCHANGED <<firstRun, servers, orphans, phase, startSpec, mu, at, boot>>

\* a monitor goroutine gets m.mu only while no pollConfiguration holds it
ShutdownMonitor ==
    /\ AtSelect
    /\ monitorServer

\* stopAllServers run by a goroutine of its own as soon as ctx is cancelled
ctxDoneAnywhere ==
    /\ phase = "cancelled"
    /\ stopAllServers

\* case <-ctx.Done() of the select in Start
ctxDone ==
    /\ phase = "cancelled"
    /\ AtSelect
    /\ stopAllServers

ShutdownNext ==
    \/ ProcExit
    \/ ShutdownMonitor
    \/ pollConfigurationSkip
    \/ pollConfigurationEnter
    \/ updateServersStep
    \/ pollConfigurationReturn
    \/ Cancel
    \/ ctxDone

ShutdownSpec == Init /\ [][ShutdownNext]_vars

(***************************************************************************)
(* The manager against documents whose entries differ in a field that      *)
(* serverConfigChanged does not read (Gamemode) or carry a custom          *)
(* server-port property.                                                   *)
(***************************************************************************)
FieldConfigs == { <<A0>>, <<AGamemode>>, <<AOverride>>, <<AOverride, B0>> }

FieldPoll == pollConfigurationFrom(FieldConfigs)

FieldNext == ProcExit \/ monitorServer \/ FieldPoll \/ stopAllServers

FieldSpec == Init /\ [][FieldNext]_vars

(***************************************************************************)
(* stopServer against the monitor goroutines, step by step.  The run       *)
(* starts after a tick has started A and B.  The goroutine of Start takes  *)
(* m.mu for a tick that stops some of the tracked names, or for            *)
(* stopAllServers, and for each name calls Process.Kill() and then         *)
(* Process.Wait() before it deletes the entry.  The monitor of a process   *)
(* (mon1 for A, mon2 for B) is blocked in cmd.Wait() until the process     *)
(* has exited, then calls m.mu.Lock(), sets the status and returns.  tick  *)
(* holds the names still to stop (todo), the name whose process has been   *)
(* killed and is waited for (cur), and whether the call is stopAllServers  *)
(* (all).                                                                  *)
(***************************************************************************)
MonitorName == [f \in Monitors |-> IF f = "mon1" THEN "A" ELSE "B"]

NoName == "none"

\* the process launched for n has exited: its entry says so, or the entry
\* is gone, which stopServer does only after its Wait
Exited(n) ==
    IF servers[n] = NoServer THEN TRUE ELSE servers[n].Process.st # "running"

\* the fleet after a first tick that has started A and B
StartedAB ==
    CHOOSE m \in AdmitUpTo({[servers |-> NoServers,
                             orphans |-> [k \in OrphanKeys |-> 0],
                             startSpec |-> [n \in Names |-> NoSpec],
                             ev |-> <<>>, loopVar |-> {}, fails |-> 0]},
                           <<A0, B0>>, 2) :
       /\ Tracked(m.servers) = {"A", "B"}
       /\ \A i \in 1..Len(m.ev) : m.ev[i].op = "reclaim" => m.ev[i].ok

WaitInit ==
    /\ LET m == NewManager(FALSE)
       IN /\ firstRun = m.firstRun
          /\ boot = [Booted EXCEPT !.cfgFirstRun = FALSE]
    /\ lastCommitSHA = CommitSHA(<<A0, B0>>)
    /\ servers = StartedAB.servers
    /\ startSpec = StartedAB.startSpec
    /\ orphans = [k \in OrphanKeys |-> 0]
    /\ phase = "loop"
    /\ last = NoPoll
    /\ mu = Unlocked
    /\ at = [f \in Flows |-> "out"]
    /\ tick = NoTick

waitFrame == <<firstRun, lastCommitSHA, orphans, phase, startSpec, last, boot>>

\* Process.Wait() of stopServer returning only once the monitor goroutine
\* of the process has returned
WaitReturnsAfterMonitor(n) ==
    \A f \in Monitors : MonitorName[f] = n => at[f] = "done"

\* server.Process.Wait() in stopServer returns once the process has exited,
\* whether or not the monitor goroutine waits for the same process
WaitReturns(n) == Exited(n)

\* a tick with names to stop, or stopAllServers, calls m.mu.Lock()
stopLock ==
    /\ at["loop"] = "out"
    /\ at' = [at EXCEPT !["loop"] = "wait"]
    /\ UNCHANGED <<mu, servers, tick, waitFrame>>

\* the lock is granted; the names to stop are those absent from the
\* document, or all of them for stopAllServers
stopSection ==
    /\ at["loop"] = "wait"
    /\ Lock("loop")
    /\ at' = [at EXCEPT !["loop"] = "in"]
    /\ \E keep \in SUBSET {"A", "B"}, all \in BOOLEAN :
          /\ all => keep = {}
          /\ tick' = [idle |-> FALSE, todo |-> Tracked(servers) \ keep,
                      cur |-> NoName, all |-> all]
    /\ UNCHANGED <<servers, waitFrame>>

\* stopServer(n): server.Process.Process.Kill()
stopServerKill ==
    /\ at["loop"] = "in"
    /\ tick.cur = NoName
    /\ \E n \in tick.todo :
          /\ tick' = [tick EXCEPT !.cur = n]
          /\ servers' = IF servers[n].Process.st = "running"
                        THEN [servers EXCEPT ![n].Process.st = "killed"]
                        ELSE servers
    /\ UNCHANGED <<mu, at, waitFrame>>

\* stopServer(n): server.Process.Wait() returns, delete(m.servers, n)
stopServerWait ==
    /\ at["loop"] = "in"
    /\ tick.cur # NoName
    /\ WaitReturns(tick.cur)
    /\ servers' = [servers EXCEPT ![tick.cur] = NoServer]
    /\ tick' = [tick EXCEPT !.cur = NoName, !.todo = @ \ {tick.cur}]
    /\ UNCHANGED <<mu, at, waitFrame>>

\* the stops are done: defer m.mu.Unlock(); after stopAllServers, Start
\* returns
stopUnlock ==
    /\ at["loop"] = "in"
    /\ tick.cur = NoName
    /\ tick.todo = {}
    /\ Unlock("loop")
    /\ at' = [at EXCEPT !["loop"] = IF tick.all THEN "done" ELSE "out"]
    /\ tick' = NoTick
    /\ UNCHANGED <<servers, waitFrame>>

\* a running process exits on its own
waitProcExit ==
    /\ \E n \in Tracked(servers), st \in ExitKinds :
          /\ servers[n].Process.st = "running"
          /\ servers' = [servers EXCEPT ![n].Process.st = st]
    /\ UNCHANGED <<mu, at, tick, waitFrame>>

\* monitorServer: cmd.Wait() returns, m.mu.Lock() is called
monitorWait(f) ==
    /\ at[f] = "out"
    /\ Exited(MonitorName[f])
    /\ at' = [at EXCEPT ![f] = "wait"]
    /\ UNCHANGED <<mu, servers, tick, waitFrame>>

\* monitorServer: the lock is granted, the status of the entry, if there is
\* one, is set
monitorSection(f) ==
    /\ at[f] = "wait"
    /\ Lock(f)
    /\ at' = [at EXCEPT ![f] = "in"]
    /\ LET n == MonitorName[f]
       IN IF servers[n] = NoServer THEN UNCHANGED servers
          ELSE \E err \in WaitErrs(WaitResult(servers[n].Process.st)) :
                  servers' = SetStatus([servers EXCEPT ![n].Process.mon = FALSE], n, err)
    /\ UNCHANGED <<tick, waitFrame>>

\* monitorServer: defer m.mu.Unlock(), return
monitorUnlock(f) ==
    /\ at[f] = "in"
    /\ Unlock(f)
    /\ at' = [at EXCEPT ![f] = "done"]
    /\ UNCHANGED <<servers, tick, waitFrame>>

WaitNext ==
    \/ stopLock \/ stopSection \/ stopServerKill \/ stopServerWait \/ stopUnlock
    \/ waitProcExit
    \/ \E f \in Monitors : monitorWait(f) \/ monitorSection(f) \/ monitorUnlock(f)

\* Every goroutine that can take a step takes it; a goroutine blocked in
\* Lock gets the mutex if the mutex is free again and again (sync.RWMutex
\* hands the lock over to a writer that has waited for more than 1 ms).
WaitSpec ==
    /\ WaitInit
    /\ [][WaitNext]_vars
    /\ WF_vars(stopSection)
    /\ WF_vars(stopServerKill)
    /\ WF_vars(stopServerWait)
    /\ WF_vars(stopUnlock)
    /\ \A f \in Monitors :
          /\ WF_vars(monitorWait(f))
          /\ SF_vars(monitorSection(f))
          /\ WF_vars(monitorUnlock(f))

(***************************************************************************)
(* Properties.  They read the history variable last: a poll that applied a *)
(* document leaves kind = "applied", the document in head and, in ev, the  *)
(* stops, starts, failed starts and skips of the call in the order they    *)
(* happened, with the store of the SHA at its place among them.            *)
(***************************************************************************)
Stops(ev, n) == { i \in 1..Len(ev) : ev[i].op = "stop" /\ ev[i].name = n }
Starts(ev, n) == { i \in 1..Len(ev) : ev[i].op = "start" /\ ev[i].name = n }
Fails(ev, n) == { i \in 1..Len(ev) : ev[i].op = "fail" /\ ev[i].name = n }
Skips(ev, n) == { i \in 1..Len(ev) : ev[i].op = "skip" /\ ev[i].name = n }
IsFleetAction(e) == e.op \notin {"sha", "reclaim"}
\* a start as the fleet sees it: the name and the spec
FleetAction(e) ==
    IF e.op = "start" THEN [op |-> "start", name |-> e.name, cfg |-> e.cfg] ELSE e
FleetActions(ev) ==
    LET sel == SelectSeq(ev, IsFleetAction)
    IN [i \in 1..Len(sel) |-> FleetAction(sel[i])]
SameLaunchFields(a, b) ==
    a.Port = b.Port /\ a.Version = b.Version /\ a.WorldName = b.WorldName
Min(a, b) == IF a <= b THEN a ELSE b

\* C1: in a tick that applies a document, an instance that is tracked and
\* whose name is in the document with the port, version and world name of
\* the spec it was started with is not stopped and not started again, and
\* stays tracked.
C1_UnchangedUntouched ==
    [][ last'.kind = "applied" =>
          \A i \in 1..Len(last'.head) :
             LET spec == last'.head[i]
                 n == spec.Name
             IN (startSpec[n] # NoSpec /\ SameLaunchFields(startSpec[n], spec))
                   => /\ Stops(last'.ev, n) = {}
                      /\ Starts(last'.ev, n) = {}
                      /\ Fails(last'.ev, n) = {}
                      /\ servers'[n] # NoServer ]_vars

\* C2: in a tick that applies a document, an instance that is tracked and
\* whose port, version or world name in the document differs from the spec
\* it was started with is stopped, and a start with the new spec follows
\* the stop, whatever the size of the fleet up to MaxInstances.
C2_ChangedRestarted ==
    [][ last'.kind = "applied" =>
          \A i \in 1..Len(last'.head) :
             LET spec == last'.head[i]
                 n == spec.Name
             IN (startSpec[n] # NoSpec /\ ~SameLaunchFields(startSpec[n], spec))
                   => \E a \in Stops(last'.ev, n) :
                         \E b \in Starts(last'.ev, n) \cup Fails(last'.ev, n) :
                            /\ a < b
                            /\ last'.ev[b].op = "start" => last'.ev[b].cfg = spec ]_vars

\* C3: after a tick that applies a document, no name absent from the
\* document is tracked, and every instance that was tracked under such a
\* name has been stopped by the tick, whatever its status and however full
\* the fleet.
C3_AbsentRemoved ==
    [][ last'.kind = "applied" =>
          \A n \in Names \ DocNames(last'.head) :
             /\ servers'[n] = NoServer
             /\ servers[n] # NoServer => Stops(last'.ev, n) # {} ]_vars

\* a tick has removed a crashed instance whose name left the document and
\* has started another one, which fills the fleet
C3_Witness ==
    /\ last.kind = "applied"
    /\ \E i \in 1..Len(last.ev) :
          /\ last.ev[i].op = "stop"
          /\ last.ev[i].name \notin DocNames(last.head)
          /\ last.ev[i].was = "crashed"
    /\ \E i \in 1..Len(last.ev) : last.ev[i].op = "start"
    /\ Cardinality(Tracked(servers)) = MaxInstances

\* C4: in every reachable state the fleet map holds at most MaxInstances
\* entries.
C4_AtMostMax ==
    Cardinality(Tracked(servers)) <= MaxInstances

\* the fleet is full after a tick that restarted one instance and skipped a
\* spec for the cap
C4_Witness ==
    /\ Cardinality(Tracked(servers)) = MaxInstances
    /\ last.kind = "applied"
    /\ \E i \in 1..Len(last.ev) : last.ev[i].op = "skip"
    /\ \E n \in Names : Stops(last.ev, n) # {} /\ Starts(last.ev, n) # {}

\* C5: a tick that applies a document to an empty fleet and in which no
\* start fails starts the first min(n, MaxInstances) specs of the document,
\* in document order, skips each later one, and tracks the started ones.
C5_FirstMinStarted ==
    [][ ( /\ last'.kind = "applied"
          /\ Tracked(servers) = {}
          /\ \A i \in 1..Len(last'.ev) : last'.ev[i].op # "fail" )
        => LET doc == last'.head
               k == Min(Len(doc), MaxInstances)
           IN /\ FleetActions(last'.ev) =
                    [i \in 1..Len(doc) |->
                       IF i <= k
                       THEN [op |-> "start", name |-> doc[i].Name, cfg |-> doc[i]]
                       ELSE [op |-> "skip", name |-> doc[i].Name]]
              /\ Tracked(servers') = { doc[i].Name : i \in 1..k } ]_vars

\* a tick on an empty fleet has started MaxInstances specs of a longer
\* document and skipped the rest
C5_Witness ==
    /\ last.kind = "applied"
    /\ Len(last.head) > MaxInstances
    /\ Len(FleetActions(last.ev)) = Len(last.head)
    /\ \A i \in 1..Len(last.head) :
          FleetActions(last.ev)[i].op = IF i <= MaxInstances THEN "start" ELSE "skip"
    /\ Cardinality(Tracked(servers)) = MaxInstances

\* C6, in the general form (any prior fleet): in a tick that applies a document and skips one of its
\* specs for the cap, no spec later in the document is tracked afterwards.
C6_LaterNotTracked ==
    [][ last'.kind = "applied" =>
          \A i \in 1..Len(last'.head) : \A j \in 1..Len(last'.head) :
             (i < j /\ Skips(last'.ev, last'.head[i].Name) # {})
                => servers'[last'.head[j].Name] = NoServer ]_vars

\* C6, in the form the admission loop guarantees: in a tick that applies a document and skips one of its
\* specs for the cap, no spec later in the document is started or stopped,
\* and a later spec is tracked afterwards only if it was tracked before.
C6_LaterNotStarted ==
    [][ last'.kind = "applied" =>
          \A i \in 1..Len(last'.head) : \A j \in 1..Len(last'.head) :
             (i < j /\ Skips(last'.ev, last'.head[i].Name) # {})
                => LET n == last'.head[j].Name
                   IN /\ Starts(last'.ev, n) = {}
                      /\ Fails(last'.ev, n) = {}
                      /\ Stops(last'.ev, n) = {}
                      /\ servers'[n] # NoServer => servers[n] # NoServer ]_vars

\* a tick has skipped the first spec of its document for the cap and a
\* later spec of the document is tracked
C6_Witness ==
    /\ last.kind = "applied"
    /\ Len(last.head) > 1
    /\ Skips(last.ev, last.head[1].Name) # {}
    /\ \E j \in 2..Len(last.head) : servers[last.head[j].Name] # NoServer

\* C7: a tick that fetches a SHA equal to the stored one stops nothing,
\* starts nothing and leaves the fleet map and the stored SHA as they were,
\* with FirstRun set or not.
C7_SameShaNoAction ==
    [][ ( /\ last'.kind \in {"same", "docErr", "applied"}
          /\ CommitSHA(last'.head) = lastCommitSHA )
        => /\ FleetActions(last'.ev) = <<>>
           /\ servers' = servers
           /\ lastCommitSHA' = lastCommitSHA ]_vars

\* with FirstRun set, a tick on a fleet that is not empty has fetched the
\* stored SHA
C7_Witness ==
    /\ firstRun
    /\ last.kind = "same"
    /\ CommitSHA(last.head) = lastCommitSHA
    /\ Tracked(servers) # {}

\* C8: a tick in which GetLastCommitSHA or GetConfig fails stops nothing,
\* starts nothing and leaves the fleet map as it was.
C8_FailedFetchNoAction ==
    [][ last'.kind \in {"shaErr", "docErr"}
        => /\ FleetActions(last'.ev) = <<>>
           /\ servers' = servers ]_vars

\* the document fetch has failed in a tick on a fleet that is not empty
C8_Witness ==
    /\ last.kind = "docErr"
    /\ Tracked(servers) # {}

\* C9: the tick after one that failed, with the head of the remote branch
\* as it was and both fetches succeeding, applies the document: after a
\* failed document fetch, for the same head; after a failed SHA fetch, for
\* every head that is not the stored one.
C9_NextTickRetries ==
    [][ /\ ( /\ last.kind = "docErr"
             /\ last'.kind \in {"same", "applied"}
             /\ last'.head = last.head )
           => last'.kind = "applied"
        /\ ( /\ last.kind = "shaErr"
             /\ last'.kind \in {"same", "applied"}
             /\ CommitSHA(last'.head) # lastCommitSHA )
           => last'.kind = "applied" ]_vars

\* C10: the first tick that fetches both the SHA and the document, on an
\* empty fleet and an empty stored SHA, starts every admitted spec before
\* it stores the fetched SHA, and leaves the started specs tracked and the
\* fetched SHA stored, with FirstRun set or not.
C10_StartThenStore ==
    [][ ( /\ last'.kind = "applied"
          /\ lastCommitSHA = NoSHA
          /\ Tracked(servers) = {} )
        => /\ \A i \in 1..Len(last'.ev) : \A j \in 1..Len(last'.ev) :
                 (last'.ev[i].op = "start" /\ last'.ev[j].op = "sha") => i < j
           /\ lastCommitSHA' = CommitSHA(last'.head)
           /\ Tracked(servers') = { n \in Names : Starts(last'.ev, n) # {} } ]_vars

\* C11: when the start of an admitted instance has failed in a tick, the
\* next tick, on the same head of the remote branch, attempts the start
\* again.
C11_FailedStartRetried ==
    [][ ( /\ last.kind = "applied"
          /\ last'.kind \in {"same", "applied"}
          /\ last'.head = last.head )
        => \A n \in Names :
              (Fails(last.ev, n) # {} /\ servers[n] = NoServer)
                 => Starts(last'.ev, n) \cup Fails(last'.ev, n) # {} ]_vars

C13_RestartIsAUnit ==
    last.kind = "applied" =>
       \A n \in DocNames(last.head) :
          (Stops(last.ev, n) # {} /\ Fails(last.ev, n) # {})
             => servers[n] # NoServer

\* C14: a tracked instance holds a process handle exactly when its status
\* is "starting" or "running".
C14_HandleIffLive ==
    \A n \in Tracked(servers) :
       HasHandle(servers[n]) <=> servers[n].Status \in {"starting", "running"}

\* C16: a tracked instance has status "stopped" or "crashed" only if the
\* process its entry holds has exited.
C16_StatusOnlyAfterOwnExit ==
    \A n \in Tracked(servers) :
       servers[n].Status \in {"stopped", "crashed"}
          => servers[n].Process.st # "running"

\* C18: stopServer on a tracked name leaves the name untracked and the other
\* entries as they were, and the process of the entry has ended when the
\* entry is deleted; stopServer on a name without an entry changes nothing.
\* The same holds of every stop the last tick has made.
C18_StopAfterExit ==
    /\ \A n \in Names :
          LET m == Manager(<<>>)
              r == stopServer(m, n)
          IN IF servers[n] = NoServer
             THEN r = m
             ELSE /\ r.servers[n] = NoServer
                  /\ \A k \in Names \ {n} : r.servers[k] = servers[k]
                  /\ Len(r.ev) = 1
                  /\ r.ev[1].exit # "running"
    /\ last.kind = "applied" =>
          \A i \in 1..Len(last.ev) :
             last.ev[i].op = "stop"
                => /\ last.ev[i].exit # "running"
                   /\ \/ servers[last.ev[i].name] = NoServer
                      \/ \E j \in Starts(last.ev, last.ev[i].name) : i < j

\* a tick has stopped an instance whose process was running, and the name
\* is untracked after the tick
C18_Witness ==
    /\ last.kind = "applied"
    /\ \E i \in 1..Len(last.ev) :
          /\ last.ev[i].op = "stop"
          /\ last.ev[i].exit = "killed"
          /\ servers[last.ev[i].name] = NoServer
    /\ \E n \in Names : servers[n] # NoServer /\ servers[n].Process.st = "running"

\* position of a name in a document
DocIndex(doc, n) == CHOOSE i \in 1..Len(doc) : doc[i].Name = n

\* C19: in a tick that applies a document, every stop of a name absent from
\* the document comes before the first start (or failed start), and the
\* starts, failed starts and skips come in the order of the document.
C19_RemovalsThenStartsInOrder ==
    last.kind = "applied" =>
       \A i \in 1..Len(last.ev) : \A j \in 1..Len(last.ev) :
          LET a == last.ev[i]
              b == last.ev[j]
          IN /\ ( /\ a.op = "stop"
                  /\ a.name \notin DocNames(last.head)
                  /\ b.op \in {"start", "fail"} ) => i < j
             /\ ( /\ a.op \in {"start", "fail", "skip"}
                  /\ b.op \in {"start", "fail", "skip"}
                  /\ i < j )
                => DocIndex(last.head, a.name) < DocIndex(last.head, b.name)

\* a tick has removed an instance whose name left the document and has then
\* started two specs of the document
C19_Witness ==
    /\ last.kind = "applied"
    /\ \E i \in 1..Len(last.ev) :
          /\ last.ev[i].op = "stop"
          /\ last.ev[i].name \notin DocNames(last.head)
    /\ Cardinality({ i \in 1..Len(last.ev) : last.ev[i].op = "start" }) >= 2

\* the process of the entry of n has exited on its own as st and its
\* monitor has yet to return
ExitedOnItsOwn(n, st) ==
    /\ servers[n] # NoServer
    /\ servers[n].Process.st = st
    /\ servers[n].Process.mon

\* the entry of n is gone or holds another process
Replaced(n, st) ==
    servers[n] = NoServer \/ servers[n].Process.st # st

\* C15: the exit of a process and the return of a monitor remove no entry;
\* and when the process of a tracked instance has exited on its own, the
\* status of the instance becomes "stopped" after a clean exit and
\* "crashed" after an abnormal one, unless a tick or the shutdown stops the
\* instance first.
C15_ExitSetsStatus ==
    /\ [][ (ProcExit \/ monitorServer) => Tracked(servers') = Tracked(servers) ]_vars
    /\ \A n \in Names :
          /\ ExitedOnItsOwn(n, "clean")
                ~> (Replaced(n, "clean") \/ servers[n].Status = "stopped")
          /\ ExitedOnItsOwn(n, "abnormal")
                ~> (Replaced(n, "abnormal") \/ servers[n].Status = "crashed")

\* the monitor of a process that exited with status 0 has returned and the
\* entry, still tracked, has status "stopped"
C15_Witness ==
    \E n \in Names :
       /\ servers[n] # NoServer
       /\ servers[n].Process.st = "clean"
       /\ ~servers[n].Process.mon
       /\ servers[n].Status = "stopped"

\* C20: once ctx is cancelled, Start runs stopAllServers and returns; then
\* the map is empty, and the process of every entry stopAllServers has
\* deleted has ended, whatever the status of the entry was.
C20_ShutdownStopsAll ==
    /\ (phase = "cancelled") ~> (phase = "done")
    /\ [](phase = "done" => servers = NoServers)
    /\ [](last.kind = "stopAll" =>
             \A i \in 1..Len(last.ev) : last.ev[i].exit # "running")

\* Start has returned after a shutdown that found one instance crashed and
\* another one with its process running
C20_Witness ==
    /\ phase = "done"
    /\ last.kind = "stopAll"
    /\ \E i \in 1..Len(last.ev) : last.ev[i].was = "crashed"
    /\ \E i \in 1..Len(last.ev) :
          last.ev[i].was = "starting" /\ last.ev[i].exit = "killed"

\* C17: a flow that is in a section on m.servers holds Manager.mu, for
\* writing if it is the loop (a tick or stopAllServers) or a monitor and for
\* reading if it is GetStatus; no two writing flows are in their sections
\* at once, and no reader is in its section while a writing flow is.
C17_MapAccessUnderLock ==
    /\ \A f \in Writers : Inside(f) => (mu.writer = f /\ mu.readers = {})
    /\ \A f \in Readers : Inside(f) => (f \in mu.readers /\ mu.writer = "none")
    /\ \A f \in Writers : \A g \in Flows \ {f} : ~(Inside(f) /\ Inside(g))

\* a monitor is in its section while the loop, in a tick, and a caller of
\* GetStatus are blocked on the mutex
C17_Witness ==
    /\ \E f \in Monitors : Inside(f)
    /\ at["loop"] = "wait"
    /\ \E g \in Readers : at[g] = "wait"

\* C22: a tick leaves alone a tracked instance whose status is "crashed" or
\* "stopped" and whose spec in the desired state is the one it was started
\* with: it is not stopped, not started again, and stays tracked with that
\* status.
C22_CrashedLeftAlone ==
    [][ last'.kind \in {"shaErr", "docErr", "same", "applied"} =>
          \A n \in Tracked(servers) :
             ( /\ servers[n].Status \in {"crashed", "stopped"}
               /\ last'.kind = "applied" =>
                     \E i \in 1..Len(last'.head) :
                        /\ last'.head[i].Name = n
                        /\ SameLaunchFields(startSpec[n], last'.head[i]) )
             => /\ servers'[n] # NoServer
                /\ servers'[n].Status = servers[n].Status
                /\ Stops(last'.ev, n) = {}
                /\ Starts(last'.ev, n) \cup Fails(last'.ev, n) = {} ]_vars

\* C23: the running count of the status snapshot is the number of tracked
\* instances whose process has been started and has not exited.
C23_StartingCountsAsRunning ==
    GetStatus(servers).Running =
       Cardinality({ n \in Tracked(servers) : servers[n].Process.st = "running" })

\* the layers recombined in index order, and the sum of their sizes
Recombined(layers) == CombineFrom(layers, 0, <<>>)

RECURSIVE SumSizes(_, _)
SumSizes(layers, k) ==
    IF k = 0 THEN 0 ELSE SumSizes(layers, k - 1) + Len(layers[k].data)

\* C24: for every archive, the layers splitArchive has written give back,
\* recombined in index order, the bytes of the archive; and
\* initializeBedrockServer never fails on the layers or the integrity check
\* when the layers are as splitArchive wrote them.
C24_RoundTrip ==
    /\ (boot.step = "split" /\ boot.tampered = "no")
          => /\ Recombined(boot.layers).err = "none"
             /\ Recombined(boot.layers).output = boot.archive
    /\ boot.step \in {"recombined", "ready"} => boot.recombined = boot.archive
    /\ boot.tampered = "no" => boot.err \notin {"integrity", "layerNotFound"}

\* the layers of an archive of more than NumLayers bytes, not a multiple of
\* NumLayers, have been recombined
C24_Witness ==
    /\ boot.step = "recombined"
    /\ Len(boot.archive) > NumLayers
    /\ Len(boot.archive) % NumLayers # 0
    /\ boot.recombined = boot.archive

\* C25: splitArchive writes NumLayers layers, which are consecutive ranges
\* of the archive: floor(size / NumLayers) bytes for each but the last, that
\* plus size mod NumLayers for the last, size bytes in all.
C25_LayerSizes ==
    (boot.step = "split" /\ boot.tampered = "no") =>
       LET size == Len(boot.archive)
           layerSize == size \div NumLayers
       IN /\ Len(boot.layers) = NumLayers
          /\ \A i \in 0..(NumLayers - 2) :
                /\ boot.layers[i + 1].present
                /\ Len(boot.layers[i + 1].data) = layerSize
                /\ boot.layers[i + 1].data =
                      SubSeq(boot.archive, i * layerSize + 1, (i + 1) * layerSize)
          /\ boot.layers[NumLayers].present
          /\ Len(boot.layers[NumLayers].data) = layerSize + (size % NumLayers)
          /\ boot.layers[NumLayers].data =
                SubSeq(boot.archive, (NumLayers - 1) * layerSize + 1, size)
          /\ SumSizes(boot.layers, NumLayers) = size

\* an archive smaller than NumLayers bytes has been split: the last layer
\* holds all of it
C25_Witness ==
    /\ boot.step = "split"
    /\ boot.tampered = "no"
    /\ Len(boot.archive) \in 1..(NumLayers - 1)
    /\ boot.layers[NumLayers].data = boot.archive

\* C26, as stated: initialization fails with the integrity error of
\* verifyIntegrity when a byte of a layer was changed and when a layer was
\* removed.
C26_TamperIsIntegrityError ==
    (boot.tampered # "no" /\ boot.step # "split")
       => (boot.step = "failed" /\ boot.err = "integrity")

\* C26, as the code has it: recombineLayers succeeds exactly when every layer
\* is there and the recombined bytes are those of the archive; after a
\* changed byte initialization fails with the integrity error, after a
\* removed layer it fails with the layer-not-found error of recombineLayers,
\* before any hash is computed; in both cases no instance is started.
C26_TamperFailsInit ==
    /\ boot.step = "split" =>
          LET r == recombineLayers(boot.archive, boot.layers)
          IN /\ r.err = "none" <=>
                   /\ \A i \in 1..NumLayers : boot.layers[i].present
                   /\ Recombined(boot.layers).output = boot.archive
             /\ boot.tampered = "flip" => r.err = "integrity"
             /\ boot.tampered = "remove" => r.err = "layerNotFound"
    /\ (boot.tampered # "no" /\ boot.step # "split")
          => /\ boot.step = "failed"
             /\ boot.err = IF boot.tampered = "flip" THEN "integrity"
                            ELSE "layerNotFound"
             /\ servers = NoServers

\* initialization has failed on the integrity check after a byte of a
\* layer was changed
C26_Witness ==
    /\ boot.tampered = "flip"
    /\ boot.step = "failed"
    /\ boot.err = "integrity"

\* C27: when initializeBedrockServer has failed, Start has returned: no
\* pollConfiguration has run, no SHA was fetched and stored, and no instance
\* is tracked.
C27_FailedInitNoLoop ==
    boot.err # "none" =>
       /\ phase = "done"
       /\ last.kind = "none"
       /\ lastCommitSHA = NoSHA
       /\ servers = NoServers

\* initialization has failed because the executable is not in the
\* extracted tree
C27_Witness ==
    /\ boot.step = "failed"
    /\ boot.err = "notFound"
    /\ phase = "done"

\* C28: after an initialization from an archive, Manager.bedrockPath is the
\* path at which extractArchive has found the executable.
C28_PathIsLocated ==
    (boot.step = "ready" /\ boot.hasArchive) => boot.bedrockPath = boot.located

\* C29: once killProcessesOnPort has returned, every process that lsof had
\* reported on the port has been terminated.
C29_ReclaimTerminates ==
    boot.step # "new" => boot.found \cap boot.foreign = {}

Launches(ev) == { i \in 1..Len(ev) : ev[i].op = "start" }

\* C21: a shutdown signal that arrives while a tick applies a document does
\* not interrupt it: stopAllServers begins only when no tick is in progress,
\* a tick in progress ends only after the last element of its document, and
\* once stopAllServers has begun no instance is tracked (none is started).
C21_ShutdownAfterTick ==
    [][ /\ (phase # "done" /\ phase' = "done") => (tick.idle /\ tick'.idle)
        /\ (~tick.idle /\ tick'.idle) => tick.k = Len(tick.doc)
        /\ (~tick.idle /\ ~tick'.idle /\ tick' # tick) =>
              (tick'.doc = tick.doc /\ tick'.k = tick.k + 1)
        /\ phase = "done" => (Tracked(servers') = {} /\ tick'.idle) ]_vars

\* ctx was cancelled during a tick, before the first of the two elements of
\* its document; the tick has since started both instances
C21_Witness ==
    /\ phase = "cancelled"
    /\ ~tick.idle
    /\ tick.k = 2
    /\ tick.late = 2
    /\ Cardinality(Launches(tick.ev)) = 2
    /\ Cardinality(Tracked(servers)) = 2

\* the starts logged by a call
StartEvents(ev) == { i \in 1..Len(ev) : ev[i].op = "start" }

\* the start logged at i follows the reclaim of its name, made on the
\* internal port of its spec, and its command line has that port
ReclaimedThenLaunched(ev, i) ==
    /\ i > 1
    /\ ev[i - 1].op = "reclaim"
    /\ ev[i - 1].name = ev[i].name
    /\ ev[i - 1].port = InternalBase + (ev[i].cfg.Port - DefaultPort)
    /\ ev[i].arg = Itoa(ev[i - 1].port)

\* C31 as claimed: for every start, the reclaim of the internal port comes
\* before the launch, and the port reclaimed, the -port argument and the
\* server-port entry of the properties file are all
\* 20000 + (external port - 19132).
C31_PortsAgree ==
    [][ last'.kind = "applied" =>
          \A i \in StartEvents(last'.ev) :
             /\ ReclaimedThenLaunched(last'.ev, i)
             /\ last'.ev[i].props["server-port"] = Itoa(last'.ev[i - 1].port) ]_vars

\* C31, amended: for every start, the reclaim of the internal port comes
\* before the launch, and the port reclaimed and the -port argument are
\* 20000 + (external port - 19132); the server-port entry of the properties
\* file is that value too unless the custom properties of the spec hold a
\* server-port entry, which is then the one written.
C31_PortsAgreeUnlessOverridden ==
    [][ last'.kind = "applied" =>
          \A i \in StartEvents(last'.ev) :
             LET e == last'.ev[i]
             IN /\ ReclaimedThenLaunched(last'.ev, i)
                /\ e.props["server-port"] =
                      IF "server-port" \in DOMAIN e.cfg.Properties
                      THEN e.cfg.Properties["server-port"]
                      ELSE Itoa(last'.ev[i - 1].port) ]_vars

\* a call has started B, without a custom server-port, after A, with one
C31_Witness ==
    /\ last.kind = "applied"
    /\ \E i, j \in StartEvents(last.ev) :
          /\ i < j
          /\ last.ev[i].cfg = AOverride
          /\ last.ev[i].props["server-port"] = Itoa(DefaultPort)
          /\ last.ev[j].cfg = B0
          /\ last.ev[j].props["server-port"] = Itoa(InternalBase + 1)
          /\ last.ev[j].arg = <<2, 0, 0, 0, 1>>

\* C32: in a tick that applies a document, a tracked instance whose spec in
\* the document differs from the spec it was started with in a field other
\* than port, version and world name (gamemode, a custom property) is
\* stopped and started again.
C32_AnyFieldChangeRestarts ==
    [][ last'.kind = "applied" =>
          \A i \in 1..Len(last'.head) :
             LET spec == last'.head[i]
                 n == spec.Name
             IN (/\ startSpec[n] # NoSpec
                 /\ startSpec[n] # spec
                 /\ SameLaunchFields(startSpec[n], spec))
                   => \E a \in Stops(last'.ev, n) :
                         \E b \in Starts(last'.ev, n) \cup Fails(last'.ev, n) : a < b ]_vars

\* C33: a newly created manager has an empty stored SHA and an empty map of
\* servers, with first-run mode on or off, and its first-run flag is the one
\* of its configuration, then and for as long as it runs.
C33_NewManagerEmpty ==
    /\ firstRun = boot.cfgFirstRun
    /\ boot.step = "new" => (lastCommitSHA = NoSHA /\ Tracked(servers) = {})

\* a manager created with first-run mode off, before Start has done anything
C33_Witness ==
    /\ boot.step = "new"
    /\ phase = "init"
    /\ ~boot.cfgFirstRun
    /\ ~firstRun
    /\ lastCommitSHA = NoSHA
    /\ servers = NoServers

\* C34: the spec recorded in a tracked instance is the spec the instance
\* was started with, for as long as the entry exists.
C34_RecordedSpecIsStartSpec ==
    \A n \in Tracked(servers) : servers[n].Config = startSpec[n]

\* C35: a tick that applies a document ends the process of no instance
\* other than those it stops: an instance whose process runs and that the
\* tick does not stop still has its process running after the tick, also
\* when two specs of the document have the same port.
C35_StartKillsNoOtherInstance ==
    [][ last'.kind = "applied" =>
          \A n \in Tracked(servers) :
             (servers[n].Process.st = "running" /\ Stops(last'.ev, n) = {})
                => /\ servers'[n] # NoServer
                   /\ servers'[n].Process.st = "running" ]_vars

\* the name has an entry when the event at j of a call is reached: the
\* entry it had before the call, or one stored by a start of the call, has
\* not been deleted by a stop since
EntryAt(srv, ev, n, j) ==
    LET before == { i \in 1..(j - 1) : ev[i].op \in {"start", "stop"} /\ ev[i].name = n }
    IN IF before = {} THEN srv[n] # NoServer
       ELSE ev[CHOOSE i \in before : \A k \in before : k <= i].op = "start"

\* C36: the processes the manager has launched and that are alive are the
\* processes of the entries of the map, one per name at most: a tick or a
\* shutdown deletes an entry only once its process has ended, and launches a
\* process for a name only when the name has no entry, so after the
\* previous process of that name has ended.
C36_OneLiveProcessPerName ==
    [][ last'.kind \in {"applied", "stopAll"} =>
          \A j \in 1..Len(last'.ev) :
             LET e == last'.ev[j]
             IN /\ e.op = "stop" => e.exit # "running"
                /\ e.op = "start" => ~EntryAt(servers, last'.ev, e.name, j) ]_vars

\* a tick has restarted an instance whose process was running, next to
\* another running instance: the old process was killed before the launch
C36_Witness ==
    /\ last.kind = "applied"
    /\ \E i, j \in 1..Len(last.ev) :
          /\ i < j
          /\ last.ev[i].op = "stop"
          /\ last.ev[i].exit = "killed"
          /\ last.ev[j].op = "start"
          /\ last.ev[j].name = last.ev[i].name
    /\ Cardinality({ n \in Tracked(servers) : servers[n].Process.st = "running" }) = 2

\* C37: no deadlock between the goroutine of Start and the monitors: when a
\* tick or stopAllServers holds m.mu and waits in stopServer for a process,
\* it gets through its stops and releases the lock, also with the monitor of
\* that process blocked in Lock, and every monitor blocked in Lock gets the
\* lock and returns.
C37_NoDeadlock ==
    /\ (mu.writer = "loop") ~> (mu.writer # "loop")
    /\ \A f \in Monitors : (at[f] = "wait") ~> (at[f] = "done")

\* the goroutine of Start holds the lock and waits for the process of A,
\* which it has killed, while the monitor of A is blocked in Lock
C37_Witness ==
    /\ mu.writer = "loop"
    /\ tick.cur = "A"
    /\ servers["A"] # NoServer
    /\ at["mon1"] = "wait"

\* the step leaves the entry of n in place: it is not a tick that stops or
\* starts n
SameEntry(n) ==
    /\ servers[n] # NoServer
    /\ servers'[n] # NoServer
    /\ last'.kind = "applied" => (Stops(last'.ev, n) = {} /\ Starts(last'.ev, n) = {})

\* C38: the status of an entry only moves forward: once it is "stopped" or
\* "crashed" it does not change for as long as the entry exists.
C38_StatusOnlyForward ==
    [][ \A n \in Names :
           (SameEntry(n) /\ servers[n].Status \in {"stopped", "crashed"})
              => servers'[n].Status = servers[n].Status ]_vars

\* the processes launched by the manager that are running
Live(srv) == { n \in Tracked(srv) : srv[n].Process.st = "running" }

====
